---- MODULE Spec2Model ----
(***************************************************************************)
(* fix_logger.py: a regex based rewriter of Go logger call-sites.          *)
(*                                                                         *)
(*   R.logger.L("msg", map[string]interface{}{ "k": v, ... })              *)
(*                                                                         *)
(* is turned into a positional format call.  Texts are TLA+ strings in the *)
(* state; the operators work on tuples of one-character strings so that    *)
(* the regular expression, split, strip and isdigit are computed character *)
(* by character as Python computes them.                                   *)
(***************************************************************************)
EXTENDS Integers, Sequences, FiniteSets, TLC

VARIABLES
    input,          \* the call-site the file was written with (Init only)
    file,           \* the bytes of the .go file on disk
    content,        \* fix_logger_calls: content (what f.read() returned)
    new_content,    \* fix_logger_calls: new_content
    pc,             \* position inside fix_logger_calls
    runs,           \* how many times the script has been started
    changed,        \* return value of fix_logger_calls
    message,        \* replace_logger_call: message (field loop)
    field_pairs,    \* replace_logger_call: field_pairs (field loop)
    i,              \* replace_logger_call: fields consumed by the loop
    new_message,    \* replace_logger_call: new_message
    format_args,    \* replace_logger_call: format_args
    result          \* replace_logger_call: returned text

vars == <<input, file, content, new_content, pc, runs, changed,
          message, field_pairs, i, new_message, format_args, result>>

passVars == <<input, file, content, new_content, pc, runs, changed>>
loopVars == <<message, field_pairs, i, new_message, format_args, result>>

----------------------------------------------------------------------------
(* Bounds *)

MaxLines == 2       \* lines in the mapping body of the generated call-site
MaxRuns == 2        \* times the script is run over the same file
MaxFields == 2      \* fields fed to the formatting loop

----------------------------------------------------------------------------
(* Characters and Python's str methods *)

Chars(s) == [n \in 1..Len(s) |-> SubSeq(s, n, n)]

RECURSIVE Text(_)
Text(cs) ==
    IF cs = <<>> THEN ""
    ELSE IF Len(cs) = 1 THEN cs[1]
    ELSE LET h == Len(cs) \div 2
         IN  Text(SubSeq(cs, 1, h)) \o Text(SubSeq(cs, h + 1, Len(cs)))

Digits == {"0", "1", "2", "3", "4", "5", "6", "7", "8", "9"}

Letters ==
    {"a", "b", "c", "d", "e", "f", "g", "h", "i", "j", "k", "l", "m",
     "n", "o", "p", "q", "r", "s", "t", "u", "v", "w", "x", "y", "z",
     "A", "B", "C", "D", "E", "F", "G", "H", "I", "J", "K", "L", "M",
     "N", "O", "P", "Q", "R", "S", "T", "U", "V", "W", "X", "Y", "Z"}

\* \w of the re module
WordChars == Letters \cup Digits \cup {"_"}

\* \s of the re module, and what str.strip() removes
Space == {" ", "\t", "\n", "\r", "\f"}

\* end (exclusive) of the longest run of characters of S starting at n
Span(cs, n, S) ==
    IF n > Len(cs) THEN n
    ELSE CHOOSE e \in n..(Len(cs) + 1) :
            /\ e = Len(cs) + 1 \/ cs[e] \notin S
            /\ \A k \in n..(e - 1) : cs[k] \in S

\* end (exclusive) of the longest run of characters outside S starting at n
RunUntil(cs, n, S) ==
    IF n > Len(cs) THEN n
    ELSE CHOOSE e \in n..(Len(cs) + 1) :
            /\ e = Len(cs) + 1 \/ cs[e] \in S
            /\ \A k \in n..(e - 1) : cs[k] \notin S

\* start (inclusive) of the longest run of characters of S ending at n
SpanBack(cs, n, S) ==
    IF n < 1 THEN n
    ELSE CHOOSE b \in 0..n :
            /\ b = 0 \/ cs[b] \notin S
            /\ \A k \in (b + 1)..n : cs[k] \in S

\* the literal lit stands at position n of cs
At(cs, n, lit) ==
    /\ n >= 1
    /\ n + Len(lit) - 1 <= Len(cs)
    /\ SubSeq(cs, n, n + Len(lit) - 1) = lit

\* sub in cs
Contains(cs, sub) == \E n \in 1..(Len(cs) + 1) : At(cs, n, sub)

\* cs.startswith(pre)
StartsWith(cs, pre) == At(cs, 1, pre)

\* cs.strip(), cs.strip(c), cs.rstrip(c)
StripSet(cs, S) ==
    LET a == Span(cs, 1, S)
        b == SpanBack(cs, Len(cs), S)
    IN  IF a > b THEN <<>> ELSE SubSeq(cs, a, b)

RStripSet(cs, S) == SubSeq(cs, 1, SpanBack(cs, Len(cs), S))

Strip(cs) == StripSet(cs, Space)

\* cs.split(c)
RECURSIVE Split(_, _)
Split(cs, c) ==
    LET e == RunUntil(cs, 1, {c})
    IN  IF e > Len(cs) THEN <<cs>>
        ELSE <<SubSeq(cs, 1, e - 1)>> \o Split(SubSeq(cs, e + 1, Len(cs)), c)

\* sep.join(parts)
RECURSIVE Join(_, _)
Join(parts, sep) ==
    IF parts = <<>> THEN <<>>
    ELSE IF Len(parts) = 1 THEN parts[1]
    ELSE parts[1] \o sep \o Join(Tail(parts), sep)

\* cs.replace(c, '')
Remove(cs, c) == SelectSeq(cs, LAMBDA x : x # c)

\* cs.isdigit()
IsDigit(cs) == cs # <<>> /\ \A n \in 1..Len(cs) : cs[n] \in Digits

----------------------------------------------------------------------------
(* The call-site pattern (lines 15, 81, 85, 89) *)

Severities == <<"Info", "Debug", "Warning", "Error">>

NoMatch == [ok |-> FALSE, start |-> 0, end |-> 0,
            group0 |-> <<>>, message |-> <<>>, fields |-> <<>>]

MapType == Chars("map[string]interface{}")

\* (\w+\.logger\.L\("([^"]+)",\s*map\[string\]interface\{\}\s*\{([^}]+)\})
\* tried at position s of text.  Every quantifier is followed by a character
\* outside its class, so the greedy match is the only candidate.
pattern(L, text, s) ==
    LET w    == Span(text, s, WordChars)                    \* \w+
        call == Chars(".logger.") \o Chars(L) \o Chars("(\"")
        m0   == w + Len(call)
        q    == RunUntil(text, m0, {"\""})                  \* ([^"]+)
        a    == Span(text, q + 2, Space)                    \* ",\s*
        b    == Span(text, a + Len(MapType), Space)         \* map...\s*
        f0   == b + 1                                       \* \{
        e    == RunUntil(text, f0, {"}"})                   \* ([^}]+)\}
    IN  IF /\ w > s
           /\ At(text, w, call)
           /\ q > m0
           /\ At(text, q, Chars("\","))
           /\ At(text, a, MapType)
           /\ At(text, b, <<"{">>)
           /\ e > f0
           /\ e <= Len(text)
        THEN [ok |-> TRUE, start |-> s, end |-> e,
              group0  |-> SubSeq(text, s, e),
              message |-> SubSeq(text, m0, q - 1),
              fields  |-> SubSeq(text, f0, e - 1)]
        ELSE NoMatch

----------------------------------------------------------------------------
(* replace_logger_call (lines 17-75) *)

\* line 26, after the strip of line 25
IsFieldLine(line) ==
    LET l == Strip(line)
    IN  Contains(l, <<":">>) /\ ~StartsWith(l, Chars("//"))

\* lines 27-31
ParseLine(line) ==
    LET parts == Split(Strip(line), ":")
    IN  [key   |-> StripSet(Strip(parts[1]), {"\""}),
         value |-> Strip(RStripSet(Strip(parts[2]), {","}))]

\* lines 23-31
ParseFields(fields) ==
    LET lines == SelectSeq(Split(fields, "\n"), IsFieldLine)
    IN  [n \in 1..Len(lines) |-> ParseLine(lines[n])]

\* line 41: the list of known values
KnownValues == {
    Chars("original.ID"), Chars("new.ID"), Chars("mergedStyle.ID"),
    Chars("styleID"), Chars("conflict.ID"), Chars("operation.ID"),
    Chars("session.ID"), Chars("userID"), Chars("sessionID"),
    Chars("controlID"), Chars("fileID"), Chars("linkID"),
    Chars("containerID"), Chars("tab.ID"), Chars("group.ID"),
    Chars("control.ID"), Chars("comment.ID"), Chars("image.ID"),
    Chars("table.ID"), Chars("paragraph.ID"), Chars("protectionType"),
    Chars("validationType"), Chars("format"), Chars("subject"),
    Chars("keywords"), Chars("author"), Chars("title"),
    Chars("filePath"), Chars("outputPath")}

\* lines 42-56 with the Type branch formatting an integer
KnownValueVerbTypeAsInt(value) ==
    IF Contains(value, Chars("ID")) THEN "%s"
    ELSE IF Contains(value, Chars("Type")) THEN "%d"
    ELSE "%s"

\* lines 42-56: the verb of a known value
KnownValueVerb(value) ==
    IF Contains(value, Chars("ID")) THEN "%s"
    ELSE IF Contains(value, Chars("Type")) THEN "%s"
    ELSE IF Contains(value, Chars("Path")) THEN "%s"
    ELSE IF value \in {Chars("title"), Chars("author"), Chars("subject"),
                       Chars("keywords"), Chars("format")} THEN "%s"
    ELSE "%s"

\* line 60
IsNumeric(value) == IsDigit(value) \/ IsDigit(Remove(value, "."))

\* lines 41-68: the verb chosen for a value
FormatVerb(value) ==
    IF value \in KnownValues THEN KnownValueVerb(value)
    ELSE IF Contains(value, Chars("len(")) THEN "%d"
    ELSE IF IsNumeric(value) THEN "%d"
    ELSE IF value = Chars("true") \/ value = Chars("false") THEN "%t"
    ELSE "%s"

\* one iteration of the loop of line 40
FormatField(msg, args, pair) ==
    [new_message |-> msg \o Chars(", ") \o pair.key \o Chars(": ")
                         \o Chars(FormatVerb(pair.value)),
     format_args |-> Append(args, pair.value)]

\* lines 37-68
RECURSIVE FormatFields(_, _, _)
FormatFields(msg, args, pairs) ==
    IF pairs = <<>> THEN [new_message |-> msg, format_args |-> args]
    ELSE LET st == FormatField(msg, args, Head(pairs))
         IN  FormatFields(st.new_message, st.format_args, Tail(pairs))

\* lines 71-75
BuildCall(group0, msg, args) ==
    LET receiver == Split(group0, ".")[1]
    IN  IF args # <<>>
        THEN receiver \o Chars(".logger.Info(\"") \o msg \o Chars("\", ")
                      \o Join(args, Chars(", ")) \o <<")">>
        ELSE receiver \o Chars(".logger.Info(\"") \o msg \o Chars("\")")

\* replace_logger_call without the early return of lines 33-34
replace_logger_call_no_fallback(match) ==
    LET pairs == ParseFields(match.fields)
        st    == FormatFields(match.message, <<>>, pairs)
    IN  BuildCall(match.group0, st.new_message, st.format_args)

replace_logger_call(match) ==
    LET pairs == ParseFields(match.fields)
        st    == FormatFields(match.message, <<>>, pairs)
    IN  IF pairs = <<>> THEN match.group0
        ELSE BuildCall(match.group0, st.new_message, st.format_args)

\* re.sub(pattern, replace_logger_call, text): leftmost, non-overlapping
\* the leftmost match starting at or after pos
search(L, text, pos) ==
    IF \E s \in pos..Len(text) : pattern(L, text, s).ok
    THEN pattern(L, text,
                 CHOOSE s \in pos..Len(text) :
                    /\ pattern(L, text, s).ok
                    /\ \A t \in pos..(s - 1) : ~pattern(L, text, t).ok)
    ELSE NoMatch

RECURSIVE sub(_, _, _)
sub(L, text, pos) ==
    LET m == search(L, text, pos)
    IN  IF m.ok
        THEN SubSeq(text, pos, m.start - 1) \o replace_logger_call(m)
                \o sub(L, text, m.end + 1)
        ELSE SubSeq(text, pos, Len(text))

re_sub(L, text) == Text(sub(L, Chars(text), 1))

----------------------------------------------------------------------------
(* The file the script is run over: one logger call-site *)

\* lines a mapping body is made of
BodyLines == {
    "\"fileID\": fileID,",
    "\"size\": len(data),",
    "\"ok\": true,",
    "\"count\": 42",
    "\"s\": a[1:2],",
    "\"k\": Foo{a: 1},",
    "// note: x",
    "",
    "\"k\": y.logger.Info(\"z }\", map[string]interface{}{ \"a\": 1 "}

Inputs ==
    [severity : {Severities[n] : n \in 1..Len(Severities)},
     lines    : UNION {[1..n -> BodyLines] : n \in 0..MaxLines},
     sep      : {"\n", " "}]

RECURSIVE JoinText(_, _)
JoinText(parts, sep) ==
    IF parts = <<>> THEN ""
    ELSE IF Len(parts) = 1 THEN parts[1]
    ELSE parts[1] \o sep \o JoinText(Tail(parts), sep)

Prefix == "\t"
Suffix == "\n"
Receiver == "o"
Message == "m"

Body(inp) ==
    IF inp.lines = <<>> THEN ""
    ELSE inp.sep \o JoinText(inp.lines, inp.sep) \o inp.sep

\* the call without its closing parenthesis: what the pattern can cover
CallHead(inp) ==
    Receiver \o ".logger." \o inp.severity \o "(\"" \o Message
        \o "\", map[string]interface{}{" \o Body(inp) \o "}"

Document(inp) == Prefix \o CallHead(inp) \o ")" \o Suffix

----------------------------------------------------------------------------
(* fix_logger_calls (lines 6-100), run by main (lines 102-114) *)

\* lines 10-11
Read ==
    /\ pc = "read"
    /\ content' = file
    /\ new_content' = ""
    /\ pc' = "Info"
    /\ UNCHANGED <<input, file, runs, changed>>
    /\ UNCHANGED loopVars

\* lines 15, 78
StageInfo ==
    /\ pc = "Info"
    /\ new_content' = re_sub("Info", content)
    /\ pc' = "Debug"
    /\ UNCHANGED <<input, file, content, runs, changed>>
    /\ UNCHANGED loopVars

\* lines 81-82
StageDebug ==
    /\ pc = "Debug"
    /\ new_content' = re_sub("Debug", new_content)
    /\ pc' = "Warning"
    /\ UNCHANGED <<input, file, content, runs, changed>>
    /\ UNCHANGED loopVars

\* lines 85-86
StageWarning ==
    /\ pc = "Warning"
    /\ new_content' = re_sub("Warning", new_content)
    /\ pc' = "Error"
    /\ UNCHANGED <<input, file, content, runs, changed>>
    /\ UNCHANGED loopVars

\* lines 89-90
StageError ==
    /\ pc = "Error"
    /\ new_content' = re_sub("Error", new_content)
    /\ pc' = "write"
    /\ UNCHANGED <<input, file, content, runs, changed>>
    /\ UNCHANGED loopVars

\* lines 93-100
WriteBack ==
    /\ pc = "write"
    /\ file' = IF new_content # content THEN new_content ELSE file
    /\ changed' = (new_content # content)
    /\ pc' = "done"
    /\ UNCHANGED <<input, content, new_content, runs>>
    /\ UNCHANGED loopVars

\* the script is started again over the file it left behind
Rerun ==
    /\ pc = "done"
    /\ runs < MaxRuns
    /\ runs' = runs + 1
    /\ pc' = "read"
    /\ UNCHANGED <<input, file, content, new_content, changed>>
    /\ UNCHANGED loopVars

Init ==
    /\ input \in Inputs
    /\ file = Document(input)
    /\ content = ""
    /\ new_content = ""
    /\ pc = "read"
    /\ runs = 1
    /\ changed = FALSE
    /\ message = ""
    /\ field_pairs = <<>>
    /\ i = 0
    /\ new_message = ""
    /\ format_args = <<>>
    /\ result = ""

Next ==
    \/ Read
    \/ StageInfo
    \/ StageDebug
    \/ StageWarning
    \/ StageError
    \/ WriteBack
    \/ Rerun

Spec == Init /\ [][Next]_vars

----------------------------------------------------------------------------
(* The formatting loop of replace_logger_call (lines 36-75), field by field *)


FieldValues ==
    {Text(v) : v \in KnownValues}
        \cup {"len(data)", "42", "1.5", "1.2.3", ".", "true", "false", "err"}

\* every value under the key "id", a few of them under a second key as well
FieldPairs ==
    [key : {"id"}, value : FieldValues]
        \cup [key : {"n"}, value : {"fileID", "42"}]

LoopInput == [severity |-> "Error", lines |-> <<"\"count\": 42">>, sep |-> " "]

CharsOfPair(pair) == [key |-> Chars(pair.key), value |-> Chars(pair.value)]

\* lines 40-68, one iteration
FormatNext ==
    /\ pc = "loop"
    /\ i < Len(field_pairs)
    /\ LET st == FormatField(Chars(new_message),
                             [n \in 1..Len(format_args) |-> Chars(format_args[n])],
                             CharsOfPair(field_pairs[i + 1]))
       IN  /\ new_message' = Text(st.new_message)
           /\ format_args' =
                [n \in 1..Len(st.format_args) |-> Text(st.format_args[n])]
    /\ i' = i + 1
    /\ UNCHANGED <<message, field_pairs, result, pc>>
    /\ UNCHANGED <<input, file, content, new_content, runs, changed>>

\* lines 71-75
Return ==
    /\ pc = "loop"
    /\ i = Len(field_pairs)
    /\ result' = Text(BuildCall(Chars(CallHead(input)), Chars(new_message),
                     [n \in 1..Len(format_args) |-> Chars(format_args[n])]))
    /\ pc' = "return"
    /\ UNCHANGED <<message, field_pairs, i, new_message, format_args>>
    /\ UNCHANGED <<input, file, content, new_content, runs, changed>>

\* lines 33-38: field_pairs is not empty, the loop is about to start
InitFields ==
    /\ input = LoopInput
    /\ file = Document(input)
    /\ content = file
    /\ new_content = ""
    /\ pc = "loop"
    /\ runs = 1
    /\ changed = FALSE
    /\ message = Message
    /\ field_pairs \in UNION {[1..n -> FieldPairs] : n \in 1..MaxFields}
    /\ i = 0
    /\ new_message = message
    /\ format_args = <<>>
    /\ result = ""

NextFields ==
    \/ FormatNext
    \/ Return

SpecFields == InitFields /\ [][NextFields]_vars

----------------------------------------------------------------------------
(* What the rewrite is expected to produce *)

\* the match of the call-site the file was written with
TheMatch == pattern(input.severity, Chars(Document(input)), Len(Prefix) + 1)

InputLines == [n \in 1..Len(input.lines) |-> Chars(input.lines[n])]

\* the field lines of the mapping as written, in textual order
InputFieldLines == SelectSeq(InputLines, IsFieldLine)

\* key of a field line: the text before the first ':', unquoted
KeyOfLine(line) ==
    LET l == Strip(line)
        c == RunUntil(l, 1, {":"})
    IN  StripSet(Strip(SubSeq(l, 1, c - 1)), {"\""})

\* expression of a field line: all the text after the first ':',
\* without the trailing ',' and the surrounding blanks
ExprOfLine(line) ==
    LET l == Strip(line)
        c == RunUntil(l, 1, {":"})
    IN  Strip(RStripSet(Strip(SubSeq(l, c + 1, Len(l))), {","}))

\* the precedence chain without the list of known values
PlainVerb(value) ==
    IF Contains(value, Chars("len(")) THEN "%d"
    ELSE IF IsNumeric(value) THEN "%d"
    ELSE IF value = Chars("true") \/ value = Chars("false") THEN "%t"
    ELSE "%s"

\* msg followed by ", k: verb" for the first n of keys
RECURSIVE WithPlaceholders(_, _, _, _)
WithPlaceholders(msg, keys, verbs, n) ==
    IF n = 0 THEN msg
    ELSE WithPlaceholders(msg, keys, verbs, n - 1)
            \o Chars(", ") \o keys[n] \o Chars(": ") \o Chars(verbs[n])

\* "msg, k1: v1, ..., kn: vn", e1, ..., en)
MessageAndArgs(keys, verbs, exprs) ==
    <<"\"">> \o WithPlaceholders(Chars(Message), keys, verbs, Len(keys))
        \o Chars("\", ") \o Join(exprs, Chars(", ")) \o <<")">>

Verbs == {"%s", "%d", "%t"}

\* the call-site was matched and its body gave at least one field
Rewritten == TheMatch.ok /\ ParseFields(TheMatch.fields) # <<>>

\* the pattern covered the call up to the '}' that closes the mapping
Complete == TheMatch.ok /\ TheMatch.end = Len(Prefix) + Len(CallHead(input))

NoBraceInLines ==
    \A n \in 1..Len(input.lines) :
        ~Contains(InputLines[n], <<"{">>) /\ ~Contains(InputLines[n], <<"}">>)

FirstRunDone == pc = "done" /\ runs = 1

----------------------------------------------------------------------------
(* Claims *)

\* C1: a matched call of severity L with at least one field is rewritten to
\* a call of the same severity L.
SeverityPreserved ==
    (FirstRunDone /\ Rewritten) =>
        StartsWith(Chars(new_content),
                   Chars(Prefix \o Receiver \o ".logger." \o input.severity
                            \o "(\""))

\* C2: the replacement covers the whole call, closing parenthesis included:
\* the output is the text before the call, the rewritten call, and the text
\* that followed the original call's ')'.
ClosingParenCovered ==
    (FirstRunDone /\ Rewritten /\ Complete) =>
        new_content = Prefix \o Text(replace_logger_call(TheMatch)) \o Suffix

\* C3: a call-site whose mapping body has a nested { ... } inside a field
\* expression is left unchanged by the four stages.
NestedBraceUnchanged ==
    (FirstRunDone /\ \E n \in 1..Len(input.lines) :
                        /\ IsFieldLine(InputLines[n])
                        /\ Contains(ExprOfLine(InputLines[n]), <<"{">>)
                        /\ Contains(ExprOfLine(InputLines[n]), <<"}">>))
        => new_content = content

\* C4: running the four stages over the output of a first run changes
\* nothing.
Idempotent == (pc = "done" /\ runs = 2) => new_content = content

\* C5: for field lines k1: e1, ..., kn: en, one per line, the message gets
\* the n placeholders ", ki: <verb>" in that order and the argument list is
\* e1, ..., en in that order.
OrderAndArity ==
    (/\ FirstRunDone
     /\ input.sep = "\n"
     /\ NoBraceInLines
     /\ InputFieldLines # <<>>)
        => LET n     == Len(InputFieldLines)
               keys  == [k \in 1..n |-> KeyOfLine(InputFieldLines[k])]
               exprs == [k \in 1..n |-> ExprOfLine(InputFieldLines[k])]
           IN  \E verbs \in [1..n -> Verbs] :
                    Contains(Chars(new_content),
                             MessageAndArgs(keys, verbs, exprs))

\* C6: a call-site whose mapping body has only blank lines and // lines, or
\* an empty mapping {}, is kept verbatim: the document is unchanged.
BlankOrComment(line) ==
    Strip(line) = <<>> \/ StartsWith(Strip(line), Chars("//"))

ZeroFieldInput == \A n \in 1..Len(input.lines) : BlankOrComment(InputLines[n])

ZeroFieldFallback ==
    ZeroFieldInput =>
        /\ pc \in {"Debug", "Warning", "Error", "write", "done"}
                => new_content = content
        /\ pc = "done" => (~changed /\ file = Document(input))

ZeroFieldWitness ==
    /\ pc = "done"
    /\ input.severity = "Warning"
    /\ input.lines = <<"// note: x", "">>
    /\ TheMatch.ok
    /\ ParseFields(TheMatch.fields) = <<>>
    /\ new_content = content

\* C7: a mapping that lists n >= 2 "key": value, entries on one line is
\* rewritten with one placeholder and one argument per entry.
SimpleEntries ==
    {"\"fileID\": fileID,", "\"size\": len(data),", "\"ok\": true,"}

SingleLineEntries ==
    (/\ FirstRunDone
     /\ input.sep = " "
     /\ Len(input.lines) >= 2
     /\ \A n \in 1..Len(input.lines) : input.lines[n] \in SimpleEntries
     /\ \A a, b \in 1..Len(input.lines) :
            a # b => input.lines[a] # input.lines[b])
        => LET n     == Len(input.lines)
               keys  == [k \in 1..n |-> KeyOfLine(InputLines[k])]
               exprs == [k \in 1..n |-> ExprOfLine(InputLines[k])]
               verbs == [k \in 1..n |-> PlainVerb(exprs[k])]
           IN  Contains(Chars(new_content), MessageAndArgs(keys, verbs, exprs))

\* C8: a field line is split on its first ':' only: a value that contains
\* ':' reaches the argument list in full.
SplitOnFirstColon ==
    (/\ FirstRunDone
     /\ input.sep = "\n"
     /\ NoBraceInLines)
        => \A n \in 1..Len(InputFieldLines) :
                Contains(Chars(new_content),
                         Chars(", ") \o ExprOfLine(InputFieldLines[n]))

\* C9: the list of known values has no effect: the message the loop builds
\* is the one the plain chain (len( / numeric / boolean / default) builds,
\* whatever the keys and the fields before.
KnownValuesNoEffect ==
    pc \in {"loop", "return"} =>
        LET keys  == [k \in 1..i |-> Chars(field_pairs[k].key)]
            verbs == [k \in 1..i |-> PlainVerb(Chars(field_pairs[k].value))]
        IN  new_message = Text(WithPlaceholders(Chars(message), keys, verbs, i))

KnownValueWitness ==
    /\ pc = "loop"
    /\ i = 2
    /\ field_pairs[1].value = "42"
    /\ field_pairs[2] = [key |-> "n", value |-> "fileID"]
    /\ new_message = "m, id: %d, n: %s"

\* C10: a value without len( gets %d exactly when it is all digits or digits
\* with a single decimal point; 1.2.3 gets %s.
NumericLiteral(value) ==
    /\ IsDigit(Remove(value, "."))
    /\ Len(value) - Len(Remove(value, ".")) <= 1

NumericLiteralRule ==
    (pc = "loop" /\ i >= 1
        /\ ~Contains(Chars(field_pairs[i].value), Chars("len(")))
        => LET verb == SubSeq(new_message, Len(new_message) - 1,
                              Len(new_message))
           IN  (verb = "%d") <=> NumericLiteral(Chars(field_pairs[i].value))

====
